---------------------------- MODULE Spec2Model ----------------------------
(***************************************************************************)
(* A model of the CFO assistant: the query router (src/query_router.py),   *)
(* the orchestrator (src/orchestrator.py), the three handlers              *)
(* (src/sql_agent.py, src/rag_agent.py, src/web_agent.py) and document     *)
(* ingestion into the similarity index (RAGAgent.ingest_documents).        *)
(*                                                                         *)
(* Text the code inspects character by character (the question, the        *)
(* classifier's response, the override) is a sequence of one-character     *)
(* strings, so that lower(), upper(), strip() and `keyword in text` are    *)
(* computed as Python computes them on ASCII text.  Text the code only     *)
(* passes along (answers, error messages) is a TLA+ string.                *)
(***************************************************************************)
EXTENDS Integers, Sequences, FiniteSets, TLC

VARIABLES
    last,               \* the last operation: its inputs and what it returned or raised
    trace,              \* the calls the last operation issued, in order
    index,              \* the Chroma collection: chunk id -> stored entry
    documents,          \* the *.txt files of Config.DOCUMENTS_DIR: stem -> text
    memory,             \* RAGAgent.memory: None or the buffer's message log
    conversation_chain, \* RAGAgent.conversation_chain: None or the chain
    search_enabled      \* WebAgent.search_enabled

vars == <<last, trace, index, documents, memory, conversation_chain, search_enabled>>

(***************************************************************************)
(* Python values.  A field that may hold None holds a tagged record.       *)
(***************************************************************************)
None == [py |-> "NoneType"]

Str(s) == [py |-> "str", s |-> s]

(***************************************************************************)
(* str.lower, str.upper, str.strip and the `in` operator on ASCII text.    *)
(***************************************************************************)
LowerAlpha ==
  << "a","b","c","d","e","f","g","h","i","j","k","l","m",
     "n","o","p","q","r","s","t","u","v","w","x","y","z" >>

UpperAlpha ==
  << "A","B","C","D","E","F","G","H","I","J","K","L","M",
     "N","O","P","Q","R","S","T","U","V","W","X","Y","Z" >>

Whitespace == {" ", "\t", "\n", "\r"}

lower_char(c) ==
  IF \E i \in DOMAIN UpperAlpha : UpperAlpha[i] = c
    THEN LowerAlpha[CHOOSE i \in DOMAIN UpperAlpha : UpperAlpha[i] = c]
    ELSE c

upper_char(c) ==
  IF \E i \in DOMAIN LowerAlpha : LowerAlpha[i] = c
    THEN UpperAlpha[CHOOSE i \in DOMAIN LowerAlpha : LowerAlpha[i] = c]
    ELSE c

lower(s) == [i \in 1..Len(s) |-> lower_char(s[i])]

upper(s) == [i \in 1..Len(s) |-> upper_char(s[i])]

strip(s) ==
  LET keep == {i \in 1..Len(s) : s[i] \notin Whitespace}
  IN  IF keep = {}
        THEN <<>>
        ELSE SubSeq(s, CHOOSE i \in keep : \A j \in keep : i <= j,
                       CHOOSE i \in keep : \A j \in keep : j <= i)

\* keyword in text: keyword occurs in text as a contiguous substring
contains(text, keyword) ==
  \E i \in 1..(Len(text) - Len(keyword) + 1) :
     SubSeq(text, i, i + Len(keyword) - 1) = keyword

(***************************************************************************)
(* QueryRouter.route                                                       *)
(***************************************************************************)
SQL == <<"S","Q","L">>

RAG == <<"R","A","G">>

WEB == <<"W","E","B">>

sql_keywords ==
  << <<"s","h","o","w">>,
     <<"l","i","s","t">>,
     <<"c","o","m","p","a","r","e">>,
     <<"a","v","e","r","a","g","e">>,
     <<"s","u","m">>,
     <<"c","o","u","n","t">>,
     <<"r","e","v","e","n","u","e">>,
     <<"p","r","o","f","i","t">>,
     <<"m","a","r","g","i","n">>,
     <<"c","o","m","p","a","n","i","e","s">>,
     <<"r","a","t","i","o">>,
     <<"f","i","n","a","n","c","i","a","l">>,
     <<"m","e","t","r","i","c">> >>

policy_keywords ==
  << <<"p","o","l","i","c","y">>,
     <<"a","p","p","r","o","v","a","l">>,
     <<"p","r","o","c","e","d","u","r","e">>,
     <<"g","u","i","d","e","l","i","n","e">>,
     <<"p","r","o","c","e","s","s">>,
     <<"r","e","q","u","i","r","e","m","e","n","t">>,
     <<"s","h","o","u","l","d"," ","w","e">>,
     <<"h","o","w"," ","t","o">>,
     <<"r","e","c","o","g","n","i","z","e">> >>

\* any(keyword in query_lower for keyword in keywords)
any_keyword_in(keywords, query_lower) ==
  \E k \in DOMAIN keywords : contains(query_lower, keywords[k])

\* The "default routing logic" of route: the SQL keywords are tried first
keyword_fallback_swapped(query) ==
  LET query_lower == lower(query)
  IN  IF any_keyword_in(policy_keywords, query_lower) THEN RAG
      ELSE IF any_keyword_in(sql_keywords, query_lower) THEN SQL
      ELSE WEB

keyword_fallback_no_lower(query) ==
  IF any_keyword_in(sql_keywords, query) THEN SQL
  ELSE IF any_keyword_in(policy_keywords, query) THEN RAG
  ELSE WEB

keyword_fallback(query) ==
  LET query_lower == lower(query)
  IN  IF any_keyword_in(sql_keywords, query_lower) THEN SQL
      ELSE IF any_keyword_in(policy_keywords, query_lower) THEN RAG
      ELSE WEB

(***************************************************************************)
(* What self.client.messages.create does: it returns a message whose text  *)
(* is `text`, or it raises (network, authentication, rate limit, timeout). *)
(***************************************************************************)
Text(t) == [kind |-> "text", text |-> t]

Raise(e) == [kind |-> "raise", error |-> e]

Returned(v) == [raised |-> FALSE, value |-> v]

Raised(e) == [raised |-> TRUE, error |-> e]

\* route(query) when the classification call has the outcome `response`.
\* The call is not inside any try block: what it raises leaves route.
route_unvalidated(query, response) ==
  IF response.kind = "raise"
    THEN Raised(response.error)
    ELSE Returned(upper(strip(response.text)))

route(query, response) ==
  IF response.kind = "raise"
    THEN Raised(response.error)
    ELSE LET route_ == upper(strip(response.text))
         IN  IF route_ \notin {SQL, RAG, WEB}
               THEN Returned(keyword_fallback(query))
               ELSE Returned(route_)


(***************************************************************************)
(* SQLAgent (src/sql_agent.py)                                             *)
(***************************************************************************)
Chars(c) == [py |-> "str", chars |-> c]

DataFrame(rows) == [py |-> "DataFrame", rows |-> rows]

\* The grave accent, which a TLA+ string literal cannot hold, is the
\* character "<grave>"; the code fence is three of them.
Grave == "<grave>"

Fence == <<Grave, Grave, Grave>>

startswith(s, prefix) ==
  Len(s) >= Len(prefix) /\ SubSeq(s, 1, Len(prefix)) = prefix

\* the positions at which sep occurs in s
occurrences(s, sep) ==
  {i \in 1..(Len(s) - Len(sep) + 1) : SubSeq(s, i, i + Len(sep) - 1) = sep}

\* s.split("\n", 1)[1]: what follows the first line break; IndexError without one
split_newline_1(s) ==
  LET at == occurrences(s, <<"\n">>)
  IN  IF at = {}
        THEN Raised("list index out of range")
        ELSE Returned(SubSeq(s, 1 + (CHOOSE i \in at : \A j \in at : i <= j), Len(s)))

\* s.rsplit(sep, 1)[0]: what precedes the last sep; all of s without one
rsplit_1_0(s, sep) ==
  LET at == occurrences(s, sep)
  IN  IF at = {}
        THEN s
        ELSE SubSeq(s, 1, (CHOOSE i \in at : \A j \in at : j <= i) - 1)

\* s.rstrip(";")
rstrip_semicolon(s) ==
  LET keep == {i \in 1..Len(s) : s[i] # ";"}
  IN  IF keep = {} THEN <<>>
      ELSE SubSeq(s, 1, CHOOSE i \in keep : \A j \in keep : j <= i)

\* _generate_sql from the generation call's outcome on
_generate_sql(response) ==
  IF response.kind = "raise"
    THEN Raised(response.error)
    ELSE LET sql_query == strip(response.text)
             body == IF startswith(sql_query, Fence)
                       THEN split_newline_1(sql_query)
                       ELSE Returned(sql_query)
         IN  IF body.raised
               THEN body
               ELSE Returned(rstrip_semicolon(strip(
                      IF startswith(sql_query, Fence)
                        THEN rsplit_1_0(body.value, Fence)
                        ELSE body.value)))

\* _execute_query: the relational store returns a table or reports an error
Rows(rows) == [kind |-> "rows", rows |-> rows]

DbError(e) == [kind |-> "error", error |-> e]

_execute_query(execution) ==
  IF execution.kind = "error"
    THEN Raised("Query execution error: " \o execution.error)
    ELSE Returned(DataFrame(execution.rows))

\* _format_results: an empty table is answered without a generation call
_format_results_always_narrating(df, narration) ==
  IF narration.kind = "raise"
    THEN [result |-> Raised(narration.error),
          calls |-> <<"client.messages.create:narrate!">>]
    ELSE [result |-> Returned(narration.text),
          calls |-> <<"client.messages.create:narrate">>]

_format_results(df, narration) ==
  IF df.rows = <<>>
    THEN [result |-> Returned("No results found for your query."), calls |-> <<>>]
    ELSE IF narration.kind = "raise"
      THEN [result |-> Raised(narration.error),
            calls |-> <<"client.messages.create:narrate!">>]
      ELSE [result |-> Returned(narration.text),
            calls |-> <<"client.messages.create:narrate">>]

\* the dict SQLAgent.query returns on an exception
sql_error_result(e) ==
  [answer |-> "I encountered an error: " \o e,
   sql_query |-> None, dataframe |-> None, error |-> Str(e)]

\* SQLAgent.query: [result |-> the dict returned, calls |-> the calls issued]
sql_agent_query_narrating_failure(env) ==
  LET generated == _generate_sql(env.generate)
      executed  == _execute_query(env.execute)
      formatted == _format_results(IF executed.raised THEN DataFrame(<<"error">>)
                                   ELSE executed.value, env.narrate)
  IN  IF env.generate.kind = "raise"
        THEN [result |-> sql_error_result(generated.error),
              calls  |-> <<"client.messages.create:generate_sql!">>]
      ELSE IF formatted.result.raised
        THEN [result |-> sql_error_result(formatted.result.error),
              calls  |-> <<"client.messages.create:generate_sql",
                           IF executed.raised THEN "read_sql_query!"
                           ELSE "read_sql_query">> \o formatted.calls]
      ELSE [result |-> [answer |-> formatted.result.value,
                        sql_query |-> Chars(generated.value),
                        dataframe |-> IF executed.raised THEN None ELSE executed.value,
                        error |-> IF executed.raised THEN Str(executed.error) ELSE None],
            calls  |-> <<"client.messages.create:generate_sql",
                         IF executed.raised THEN "read_sql_query!"
                         ELSE "read_sql_query">> \o formatted.calls]

sql_agent_query(env) ==
  LET generated == _generate_sql(env.generate)
      executed  == _execute_query(env.execute)
      formatted == _format_results(executed.value, env.narrate)
  IN  IF env.generate.kind = "raise"
        THEN [result |-> sql_error_result(generated.error),
              calls  |-> <<"client.messages.create:generate_sql!">>]
      ELSE IF generated.raised
        THEN [result |-> sql_error_result(generated.error),
              calls  |-> <<"client.messages.create:generate_sql">>]
      ELSE IF executed.raised
        THEN [result |-> sql_error_result(executed.error),
              calls  |-> <<"client.messages.create:generate_sql", "read_sql_query!">>]
      ELSE IF formatted.result.raised
        THEN [result |-> sql_error_result(formatted.result.error),
              calls  |-> <<"client.messages.create:generate_sql", "read_sql_query">>
                           \o formatted.calls]
      ELSE [result |-> [answer |-> formatted.result.value,
                        sql_query |-> Chars(generated.value),
                        dataframe |-> executed.value,
                        error |-> None],
            calls  |-> <<"client.messages.create:generate_sql", "read_sql_query">>
                         \o formatted.calls]

(***************************************************************************)
(* WebAgent (src/web_agent.py)                                             *)
(***************************************************************************)
Hits(results) == [kind |-> "hits", results |-> results]

SearchRaise(e) == [kind |-> "raise", error |-> e]

\* _search_web: a search that raises is reported as no results
_search_web(enabled, search) ==
  IF ~enabled THEN Returned(<<>>)
  ELSE IF search.kind = "raise" THEN Returned(<<>>)
  ELSE Returned(search.results)

web_error_result(e) ==
  [answer |-> "I encountered an error while searching: " \o e,
   sources |-> <<>>, search_results |-> <<>>, error |-> Str(e)]

\* lines 63-69: the dict returned when no search provider is configured
not_configured_result_as_no_results ==
  [answer |-> "I couldn't find any relevant information on the web for your query.",
   sources |-> <<>>, search_results |-> <<>>, error |-> None]

not_configured_result ==
  [answer |-> "Web search is not configured. Please add TAVILY_API_KEY to your .env file. You can get a free API key at https://tavily.com",
   sources |-> <<>>, search_results |-> <<>>,
   error |-> Str("Web search not configured")]

\* WebAgent.query: [result |-> the dict returned, calls |-> the calls issued]
web_agent_query(enabled, env) ==
  IF ~enabled
    THEN [result |-> not_configured_result, calls |-> <<>>]
  ELSE LET search_results == _search_web(enabled, env.search)
           searched == IF env.search.kind = "raise"
                         THEN <<"tavily.search!">> ELSE <<"tavily.search">>
       IN  IF search_results.raised
             THEN [result |-> web_error_result(search_results.error),
                   calls  |-> searched]
           ELSE IF search_results.value = <<>>
             THEN [result |->
                     [answer |-> "I couldn't find any relevant information on the web for your query.",
                      sources |-> <<>>, search_results |-> <<>>, error |-> None],
                   calls |-> searched]
           ELSE IF env.answer.kind = "raise"
             THEN [result |-> web_error_result(env.answer.error),
                   calls  |-> searched \o <<"client.messages.create:answer!">>]
           ELSE [result |->
                   [answer |-> env.answer.text,
                    sources |-> [n \in DOMAIN search_results.value |->
                                   [title |-> search_results.value[n].title,
                                    url   |-> search_results.value[n].url]],
                    search_results |-> search_results.value,
                    error |-> None],
                 calls |-> searched \o <<"client.messages.create:answer">>]

(***************************************************************************)
(* Documents, the text splitter and the embedding model.                   *)
(*                                                                         *)
(* A text is the sequence of its paragraphs, each with its length in       *)
(* characters (the paragraph separator it carries included).  The splitter *)
(* RecursiveCharacterTextSplitter(chunk_size, chunk_overlap) cuts at       *)
(* paragraph boundaries first and merges the paragraphs into chunks; every *)
(* paragraph of the texts below fits the window, so no finer separator is  *)
(* ever needed.  A chunk is the sequence of the paragraphs it holds.       *)
(***************************************************************************)
chunk_size == 1000

chunk_overlap == 200

n_results == 5

Paragraph(t, n) == [text |-> t, len |-> n]

\* the splitter's merge: drop from the front of the chunk just emitted until
\* what is left fits the overlap and leaves room for the next paragraph
RECURSIVE drop_overlap(_, _, _)
drop_overlap(current, total, len) ==
  IF total > chunk_overlap \/ (total + len > chunk_size /\ total > 0)
    THEN drop_overlap(Tail(current), total - Head(current).len, len)
    ELSE [current |-> current, total |-> total]

RECURSIVE merge_splits(_, _, _)
merge_splits(splits, current, total) ==
  IF splits = <<>>
    THEN IF current = <<>> THEN <<>> ELSE <<current>>
    ELSE LET d == Head(splits)
         IN  IF total + d.len > chunk_size /\ current # <<>>
               THEN LET kept == drop_overlap(current, total, d.len)
                    IN  <<current>> \o merge_splits(Tail(splits),
                                                    Append(kept.current, d),
                                                    kept.total + d.len)
               ELSE merge_splits(Tail(splits), Append(current, d), total + d.len)

\* self.text_splitter.split_text(text)
split_text(text) == merge_splits(text, <<>>, 0)

RECURSIVE text_length(_)
text_length(paragraphs) ==
  IF paragraphs = <<>> THEN 0
  ELSE Head(paragraphs).len + text_length(Tail(paragraphs))

\* self.embedding_model.encode: a vector of fixed size that the text determines
encode(chunk) == <<text_length(chunk), Len(chunk)>>

\* the embedding of a question, a text of one paragraph
encode_question(question) == <<Len(question), 1>>

(***************************************************************************)
(* The Chroma collection: chunk id -> [document, embedding, metadata].     *)
(***************************************************************************)
EmptyIndex == [id \in {} |-> None]

\* f"{doc_path.stem}_chunk_{i}"
chunk_id_without_stem(stem, i) == "chunk_" \o ToString(i)

chunk_id(stem, i) == stem \o "_chunk_" \o ToString(i)

\* the entries ingest_documents builds for one document, in split order;
\* enumerate counts from 0
document_entries(stem, text) ==
  LET chunks == split_text(text)
  IN  [n \in 1..Len(chunks) |->
         [id |-> chunk_id(stem, n - 1),
          document |-> chunks[n],
          embedding |-> encode(chunks[n]),
          metadata |-> [source |-> stem \o ".txt", chunk_id |-> n - 1]]]

RECURSIVE all_entries(_, _)
all_entries(files, order) ==
  IF order = <<>> THEN <<>>
  ELSE document_entries(Head(order), files[Head(order)])
         \o all_entries(files, Tail(order))

stored(entry) ==
  [document |-> entry.document, embedding |-> entry.embedding,
   metadata |-> entry.metadata]

\* collection.add: Chroma ignores, without an exception, every record whose
\* id the collection already holds, and keeps the entry it has
collection_add(collection, batch) ==
  LET ids == {batch[n].id : n \in DOMAIN batch}
  IN  [id \in DOMAIN collection \cup ids |->
         IF id \in DOMAIN collection
           THEN collection[id]
           ELSE stored(batch[CHOOSE n \in DOMAIN batch : batch[n].id = id])]

\* self.collection.add(...) as ingest_documents calls it: Chroma rejects an
\* empty list of ids, and otherwise adds the batch
collection_add_call_rejecting_known_ids(collection, batch) ==
  IF batch = <<>>
    THEN [raised |-> TRUE, error |-> "Expected IDs to be a non-empty list",
          collection |-> collection]
    ELSE IF \E n \in DOMAIN batch : batch[n].id \in DOMAIN collection
      THEN [raised |-> TRUE, error |-> "IDAlreadyExistsError",
            collection |-> collection]
      ELSE [raised |-> FALSE, error |-> "",
            collection |-> collection_add(collection, batch)]

collection_add_call(collection, batch) ==
  IF batch = <<>>
    THEN [raised |-> TRUE, error |-> "Expected IDs to be a non-empty list",
          collection |-> collection]
    ELSE [raised |-> FALSE, error |-> "",
          collection |-> collection_add(collection, batch)]

\* self.collection.count()
count_unloaded(collection) == 0

count(collection) == Cardinality(DOMAIN collection)

\* the orders in which glob may list the files
Orders(S) ==
  {order \in [1..Cardinality(S) -> S] :
     \A m, n \in 1..Cardinality(S) : m # n => order[m] # order[n]}

(***************************************************************************)
(* RAGAgent.query (src/rag_agent.py)                                       *)
(***************************************************************************)
Abs(x) == IF x < 0 THEN -x ELSE x

distance(e1, e2) == Abs(e1[1] - e2[1]) + Abs(e1[2] - e2[2])

Min(a, b) == IF a < b THEN a ELSE b

\* the rankings a nearest-neighbour search for k entries may return: the k
\* nearest ids, nearest first, entries at equal distance in either order
nearest(collection, query_embedding, k) ==
  LET ids == DOMAIN collection
      m == Min(k, Cardinality(ids))
      d(id) == distance(collection[id].embedding, query_embedding)
  IN  {r \in [1..m -> ids] :
         /\ \A a, b \in 1..m : a < b => r[a] # r[b] /\ d(r[a]) <= d(r[b])
         /\ \A id \in ids : (\A a \in 1..m : r[a] # id) =>
                              \A a \in 1..m : d(r[a]) <= d(id)}

\* list(set(names)): each name once, in an order the set decides
list_set_keeping_duplicates(names) == { names }

list_set(names) ==
  LET distinct == {names[n] : n \in DOMAIN names}
  IN  Orders(distinct)

rag_error_result(e) ==
  [answer |-> "I encountered an error: " \o e,
   sources |-> <<>>, source_documents |-> <<>>, error |-> Str(e)]

\* _stateless_query: the results it may return, with the calls issued
_stateless_query(collection, question, env) ==
  UNION {
    { IF ranking = <<>>
        THEN [result |-> Returned(
                [answer |-> "I couldn't find any relevant information in the policy documents.",
                 sources |-> <<>>, source_documents |-> <<>>, error |-> None]),
              calls |-> <<"embedding_model.encode", "collection.query">>]
      ELSE IF env.answer.kind = "raise"
        THEN [result |-> Raised(env.answer.error),
              calls |-> <<"embedding_model.encode", "collection.query",
                          "client.messages.create:answer!">>]
      ELSE [result |-> Returned(
              [answer |-> env.answer.text,
               sources |-> sources,
               source_documents |-> <<>>, error |-> None]),
            calls |-> <<"embedding_model.encode", "collection.query",
                        "client.messages.create:answer">>]
      : sources \in list_set([n \in DOMAIN ranking |->
                                collection[ranking[n]].metadata.source]) }
    : ranking \in nearest(collection, encode_question(question), n_results) }

\* the memory and the chain _initialize_conversation_chain creates
NewMemory == [py |-> "ConversationBufferMemory", messages |-> <<>>]

NewChain == [py |-> "ConversationalRetrievalChain"]

\* get_conversation_history: the turn log, empty before the memory is created
Messages(mem) == IF mem = None THEN <<>> ELSE mem.messages

Human(question) == [type |-> "human", question |-> question]

AI(answer) == [type |-> "ai", answer |-> answer]

\* memory.save_context: the question and the answer are appended to the log
save_context_replacing(mem, question, answer) ==
  [mem EXCEPT !.messages = <<Human(question), AI(answer)>>]

save_context(mem, question, answer) ==
  [mem EXCEPT !.messages = @ \o <<Human(question), AI(answer)>>]

\* self.conversation_chain({"question": question}): with a chat history the
\* question is first condensed into a standalone one (a generation call);
\* the retriever fetches the nearest chunks; the answer is generated from
\* them (a generation call, issued whatever was retrieved); the turn is saved
conversation_chain_call(collection, mem, question, env) ==
  LET condensing == mem.messages # <<>>
      first == IF ~condensing THEN <<>>
               ELSE IF env.condense.kind = "raise"
                 THEN <<"llm:condense_question!">>
                 ELSE <<"llm:condense_question">>
      standalone == IF condensing THEN env.condense.text ELSE question
  IN  IF condensing /\ env.condense.kind = "raise"
        THEN { [result |-> Raised(env.condense.error), calls |-> first, memory |-> mem] }
        ELSE { IF env.answer.kind = "raise"
                 THEN [result |-> Raised(env.answer.error),
                       calls |-> first \o <<"retriever", "llm:answer!">>,
                       memory |-> mem]
                 ELSE [result |-> Returned(
                         [answer |-> env.answer.text,
                          source_documents |->
                            [n \in DOMAIN ranking |->
                               [page_content |-> collection[ranking[n]].document,
                                metadata |-> collection[ranking[n]].metadata]]]),
                       calls |-> first \o <<"retriever", "llm:answer">>,
                       memory |-> save_context(mem, question, env.answer.text)]
               : ranking \in nearest(collection, encode_question(standalone), n_results) }

\* RAGAgent.query: the outcomes it may have, each
\* [result, calls, memory, conversation_chain]
rag_agent_query(collection, mem, chain, question, use_memory, env) ==
  IF use_memory
    THEN LET mem1 == IF chain = None THEN NewMemory ELSE mem
             chain1 == IF chain = None THEN NewChain ELSE chain
         IN  UNION {
               IF out.result.raised
                 THEN { [result |-> rag_error_result(out.result.error),
                         calls |-> <<"conversation_chain">> \o out.calls,
                         memory |-> out.memory, conversation_chain |-> chain1] }
                 ELSE { [result |->
                           [answer |-> out.result.value.answer,
                            sources |-> sources,
                            source_documents |-> out.result.value.source_documents,
                            error |-> None],
                         calls |-> <<"conversation_chain">> \o out.calls,
                         memory |-> out.memory, conversation_chain |-> chain1]
                        : sources \in list_set(
                            [n \in DOMAIN out.result.value.source_documents |->
                               out.result.value.source_documents[n].metadata.source]) }
               : out \in conversation_chain_call(collection, mem1, question, env) }
    ELSE { [result |-> IF out.result.raised
                         THEN rag_error_result(out.result.error)
                         ELSE out.result.value,
            calls |-> <<"_stateless_query">> \o out.calls,
            memory |-> mem, conversation_chain |-> chain]
           : out \in _stateless_query(collection, question, env) }

(***************************************************************************)
(* CFOAssistant.query (src/orchestrator.py): the envelopes                 *)
(***************************************************************************)
\* dict.get(key, default)
Get(d, key, default) == IF key \in DOMAIN d THEN d[key] ELSE default

\* `if force_agent:` -- None and the empty string both count as no override
truthy(force_agent) == force_agent # None /\ force_agent.chars # <<>>

sql_envelope_dropping_error(result) ==
  [answer |-> result.answer,
   agent_used |-> "SQL Database",
   metadata |-> [sql_query |-> Get(result, "sql_query", None),
                 dataframe |-> Get(result, "dataframe", None)],
   error |-> None]

sql_envelope(result) ==
  [answer |-> result.answer,
   agent_used |-> "SQL Database",
   metadata |-> [sql_query |-> Get(result, "sql_query", None),
                 dataframe |-> Get(result, "dataframe", None)],
   error |-> Get(result, "error", None)]

rag_envelope(result) ==
  [answer |-> result.answer,
   agent_used |-> "Policy Documents (RAG)",
   metadata |-> [sources |-> Get(result, "sources", <<>>),
                 chunks |-> Get(result, "chunks", <<>>)],
   error |-> Get(result, "error", None)]

web_envelope(result) ==
  [answer |-> result.answer,
   agent_used |-> "Web Search",
   metadata |-> [sources |-> Get(result, "sources", <<>>),
                 search_results |-> Get(result, "search_results", <<>>)],
   error |-> Get(result, "error", None)]

unknown_envelope ==
  [answer |-> "I couldn't determine how to handle your query. Please try rephrasing.",
   agent_used |-> "None",
   metadata |-> [key \in {} |-> None],
   error |-> Str("Unknown agent type")]

(***************************************************************************)
(* Inputs of route.  Questions are built from fragments, so that keywords  *)
(* appear in either case, split over a fragment boundary ("su" + "m"),     *)
(* inside longer words, together with keywords of the other list, or not   *)
(* at all; the scenario questions of the router's own test list are added. *)
(***************************************************************************)
MaxFragments == 2

Fragments ==
  { <<"S","h","o","w">>, <<"S","U","M">>, <<"s","u">>, <<"m">>,
    <<"P","o","l","i","c","y">>, <<"H","o","w">>, <<" ","t","o">>, <<" ">>,
    <<"n","e","w","s">>, <<"r","a","t">>, <<"i","o">>,
    <<"S","h","o","u","l","d"," ","W","E">> }

RECURSIVE FragmentTexts(_)
FragmentTexts(n) ==
  IF n = 0 THEN { <<>> }
  ELSE LET shorter == FragmentTexts(n - 1)
       IN  shorter \cup { t \o f : t \in shorter, f \in Fragments }

ShowTop5 ==
  <<"S","h","o","w"," ","t","o","p"," ","5"," ","c","o","m","p","a","n","i","e","s",
    " ","b","y"," ","r","e","v","e","n","u","e">>

ExpensePolicy ==
  <<"W","h","a","t","'","s"," ","o","u","r"," ","e","x","p","e","n","s","e"," ",
    "a","p","p","r","o","v","a","l"," ","p","o","l","i","c","y","?">>

LatestTrends ==
  <<"L","a","t","e","s","t"," ","t","r","e","n","d","s"," ","i","n"," ",
    "C","F","O"," ","p","r","i","o","r","i","t","i","e","s">>

ScenarioQuestions == {ShowTop5, ExpensePolicy, LatestTrends}

RouterQueries == FragmentTexts(MaxFragments) \cup ScenarioQuestions

\* Responses of the classification call: the three tokens, tokens in another
\* case or padded with whitespace, and responses that are no token at all.
ClassifierTexts ==
  { SQL, RAG, WEB,
    <<" ","s","q","l","\n">>, <<"R","a","g">>, <<"w","e","b","\t">>,
    <<>>, <<" ">>, <<"S","Q","L"," ","R","A","G">>,
    <<"S","T","R","U","C","T","U","R","E","D">>, <<"x","y","z">> }

GatewayErrors == {"APIConnectionError", "APITimeoutError"}

ClassifierOutcomes ==
  { Text(t) : t \in ClassifierTexts } \cup { Raise(e) : e \in GatewayErrors }

(***************************************************************************)
(* Inputs of the assistant.                                                *)
(***************************************************************************)
MaxTurns == 2

Questions == ScenarioQuestions

ForceAgents ==
  { None, Chars(<<>>), Chars(<<"s","q","l">>), Chars(RAG),
    Chars(<<"W","e","b">>), Chars(<<"x","y","z">>) }

\* outcomes of the classification call in the assistant's runs
AssistantClassifierOutcomes ==
  { Text(SQL), Text(<<" ","r","a","g","\n">>), Text(<<"x","y","z">>),
    Raise("APIConnectionError") }

FencedSql ==
  <<Grave,Grave,Grave,"s","q","l","\n","S","E","L","E","C","T"," ","1",";","\n",
    Grave,Grave,Grave>>

SqlEnvs ==
  [generate : {Text(FencedSql), Raise("APIConnectionError")},
   execute  : {Rows(<<>>), Rows(<<"row">>), DbError("no such table: companies")},
   narrate  : {Text("The top company is ..."), Raise("RateLimitError")}]

Hit == [title |-> "CFO priorities", url |-> "https://example.com/cfo",
        content |-> "..."]

WebEnvs ==
  [search : {Hits(<<>>), Hits(<<Hit>>), SearchRaise("tavily: 401")},
   answer : {Text("According to [1] ..."), Raise("APIConnectionError")}]

RagEnvs ==
  [condense : {Text(ExpensePolicy), Raise("APIConnectionError")},
   answer   : {Text("Per the expense policy ..."), Raise("RateLimitError")}]

\* paragraphs and texts of the policy documents
ParaA == Paragraph("A", 300)

ParaB == Paragraph("B", 600)

ParaC == Paragraph("C", 150)

ParaD == Paragraph("D", 700)

Short == <<ParaA>>

Long == <<ParaA, ParaB, ParaC, ParaD>>

Revised == <<ParaB, ParaC, ParaD>>

Empty == <<>>

Texts == {Short, Long, Revised, Empty}

Stems == {"doc1", "doc2"}

PolicyDocuments == [stem \in Stems |-> IF stem = "doc1" THEN Long ELSE Short]

\* the index an ingestion into an empty collection builds from `files`
FreshIndex(files) ==
  collection_add(EmptyIndex,
                 all_entries(files, CHOOSE order \in Orders(DOMAIN files) : TRUE))

(***************************************************************************)
(* The state after construction (CFOAssistant.__init__, RAGAgent.__init__, *)
(* WebAgent.__init__).  The collection is persistent: it is empty, or it   *)
(* holds what an earlier process ingested.                                 *)
(***************************************************************************)
Idle == [op |-> "idle"]

Init ==
  /\ last = Idle
  /\ trace = <<>>
  /\ index \in {EmptyIndex, FreshIndex(PolicyDocuments)}
  /\ documents = [exists |-> TRUE, files |-> PolicyDocuments]
  /\ memory = None
  /\ conversation_chain = None
  /\ search_enabled \in BOOLEAN

(***************************************************************************)
(* CFOAssistant.query                                                      *)
(***************************************************************************)
QueryRecord(question, force_agent, use_memory, agent_type, handled, result) ==
  [op |-> "query", question |-> question, force_agent |-> force_agent,
   use_memory |-> use_memory,
   agent_type |-> agent_type,  \* what line 39 prints, None when it is not reached
   handled |-> handled,        \* the dict the handler returned, None without one
   result |-> result]

\* router.route as the orchestrator calls it, with the calls it issues
routing(question, classification) ==
  [routed |-> route(question, classification),
   calls |-> IF classification.kind = "raise"
               THEN <<"router.route", "client.messages.create:classify!">>
               ELSE <<"router.route", "client.messages.create:classify">>]

\* lines 33-37: the override, upper-cased, or the router's answer
resolve_routing_first(question, force_agent, classification) ==
  LET r == routing(question, classification)
  IN  IF r.routed.raised \/ ~truthy(force_agent)
        THEN r
        ELSE [routed |-> Returned(upper(force_agent.chars)), calls |-> r.calls]

resolve(question, force_agent, classification) ==
  IF truthy(force_agent)
    THEN [routed |-> Returned(upper(force_agent.chars)), calls |-> <<>>]
    ELSE routing(question, classification)

\* lines 42-52
DispatchSQL_speculative(question, force_agent, use_memory, calls) ==
  /\ \E env \in SqlEnvs, web_env \in WebEnvs :
       LET out == sql_agent_query(env)
           web == web_agent_query(search_enabled, web_env)
       IN  /\ last' = QueryRecord(question, force_agent, use_memory, Chars(SQL),
                                  out.result, Returned(sql_envelope(out.result)))
           /\ trace' = calls \o <<"sql_agent.query">> \o out.calls
                             \o <<"web_agent.query">> \o web.calls
  /\ UNCHANGED <<memory, conversation_chain>>

DispatchSQL(question, force_agent, use_memory, calls) ==
  /\ \E env \in SqlEnvs :
       LET out == sql_agent_query(env)
       IN  /\ last' = QueryRecord(question, force_agent, use_memory, Chars(SQL),
                                  out.result, Returned(sql_envelope(out.result)))
           /\ trace' = calls \o <<"sql_agent.query">> \o out.calls
  /\ UNCHANGED <<memory, conversation_chain>>

\* lines 54-64: rag_agent.query(question), its use_memory left at the default
DispatchRAG(question, force_agent, use_memory, calls) ==
  /\ memory # None => Len(memory.messages) < 2 * MaxTurns
  /\ \E env \in RagEnvs :
       \E out \in rag_agent_query(index, memory, conversation_chain,
                                  question, TRUE, env) :
           /\ last' = QueryRecord(question, force_agent, use_memory, Chars(RAG),
                                  out.result, Returned(rag_envelope(out.result)))
           /\ trace' = calls \o <<"rag_agent.query">> \o out.calls
           /\ memory' = out.memory
           /\ conversation_chain' = out.conversation_chain

DispatchWEB_clearing_memory(question, force_agent, use_memory, calls) ==
  /\ \E env \in WebEnvs :
       LET out == web_agent_query(search_enabled, env)
       IN  /\ last' = QueryRecord(question, force_agent, use_memory, Chars(WEB),
                                  out.result, Returned(web_envelope(out.result)))
           /\ trace' = calls \o <<"web_agent.query">> \o out.calls
  /\ memory' = IF memory = None THEN None ELSE [memory EXCEPT !.messages = <<>>]
  /\ UNCHANGED conversation_chain

\* lines 66-76
DispatchWEB(question, force_agent, use_memory, calls) ==
  /\ \E env \in WebEnvs :
       LET out == web_agent_query(search_enabled, env)
       IN  /\ last' = QueryRecord(question, force_agent, use_memory, Chars(WEB),
                                  out.result, Returned(web_envelope(out.result)))
           /\ trace' = calls \o <<"web_agent.query">> \o out.calls
  /\ UNCHANGED <<memory, conversation_chain>>

\* lines 78-84
DispatchUnknown_to_web(question, force_agent, use_memory, agent_type, calls) ==
  /\ \E env \in WebEnvs :
       LET out == web_agent_query(search_enabled, env)
       IN  /\ last' = QueryRecord(question, force_agent, use_memory, Chars(agent_type),
                                  out.result, Returned(web_envelope(out.result)))
           /\ trace' = calls \o <<"web_agent.query">> \o out.calls
  /\ UNCHANGED <<memory, conversation_chain>>

DispatchUnknown(question, force_agent, use_memory, agent_type, calls) ==
  /\ last' = QueryRecord(question, force_agent, use_memory, Chars(agent_type),
                         None, Returned(unknown_envelope))
  /\ trace' = calls
  /\ UNCHANGED <<memory, conversation_chain>>

\* lines 41-84: the dispatch on agent_type
Dispatch(question, force_agent, use_memory, agent_type, calls) ==
  \/ agent_type = SQL /\ DispatchSQL(question, force_agent, use_memory, calls)
  \/ agent_type = RAG /\ DispatchRAG(question, force_agent, use_memory, calls)
  \/ agent_type = WEB /\ DispatchWEB(question, force_agent, use_memory, calls)
  \/ /\ agent_type \notin {SQL, RAG, WEB}
     /\ DispatchUnknown(question, force_agent, use_memory, agent_type, calls)

Query(question, force_agent, use_memory) ==
  /\ last = Idle
  /\ \E classification \in AssistantClassifierOutcomes :
       LET resolved == resolve(question, force_agent, classification)
       IN  IF resolved.routed.raised
             THEN \* what route raises leaves query: nothing catches it
                  /\ last' = QueryRecord(question, force_agent, use_memory, None,
                                         None, Raised(resolved.routed.error))
                  /\ trace' = resolved.calls
                  /\ UNCHANGED <<memory, conversation_chain>>
             ELSE Dispatch(question, force_agent, use_memory,
                           resolved.routed.value, resolved.calls)
  /\ UNCHANGED <<index, documents, search_enabled>>

(***************************************************************************)
(* RAGAgent.clear_memory                                                   *)
(***************************************************************************)
\* lines 251-252: if self.memory: self.memory.clear()
clear_memory_keeping_last_turn(mem) ==
  IF mem # None /\ Len(mem.messages) > 2
    THEN [mem EXCEPT !.messages = SubSeq(@, Len(@) - 1, Len(@))]
    ELSE mem

clear_memory(mem) ==
  IF mem # None THEN [mem EXCEPT !.messages = <<>>] ELSE mem

ClearMemory_resetting_collection ==
  /\ last = Idle
  /\ last' = [op |-> "clear_memory", before |-> Messages(memory)]
  /\ memory' = IF memory # None THEN [memory EXCEPT !.messages = <<>>] ELSE memory
  /\ trace' = IF memory # None THEN <<"memory.clear">> ELSE <<>>
  /\ index' = EmptyIndex
  /\ UNCHANGED <<documents, conversation_chain, search_enabled>>

ClearMemory ==
  /\ last = Idle
  /\ last' = [op |-> "clear_memory",
              before |-> Messages(memory)]   \* the log as the call found it
  /\ memory' = clear_memory(memory)
  /\ trace' = IF memory # None THEN <<"memory.clear">> ELSE <<>>
  /\ UNCHANGED <<index, documents, conversation_chain, search_enabled>>

(***************************************************************************)
(* RAGAgent.ingest_documents                                               *)
(***************************************************************************)
IngestRecord(force_reload, result, all_ids) ==
  [op |-> "ingest_documents", force_reload |-> force_reload,
   result |-> result, all_ids |-> all_ids,
   before |-> index]           \* the collection as the call found it

ingest_documents(force_reload) ==
  /\ last = Idle
  /\ IF ~force_reload /\ count(index) > 0
       THEN \* already loaded: report the count and return
            /\ last' = IngestRecord(force_reload, Returned(None), <<>>)
            /\ trace' = <<"collection.count", "collection.count">>
            /\ index' = index
       ELSE LET counted == IF force_reload THEN <<>> ELSE <<"collection.count">>
            IN  IF ~documents.exists
                  THEN /\ last' = IngestRecord(force_reload,
                                     Raised("Documents directory not found"), <<>>)
                       /\ trace' = counted
                       /\ index' = index
                  ELSE \E order \in Orders(DOMAIN documents.files) :
                         LET batch == all_entries(documents.files, order)
                             all_ids == [n \in DOMAIN batch |-> batch[n].id]
                             reads == [n \in DOMAIN order |-> "open:" \o order[n] \o ".txt"]
                             calls == counted \o reads
                                        \o <<"embedding_model.encode", "collection.add">>
                             added == collection_add_call(index, batch)
                         IN  IF added.raised
                               THEN /\ last' = IngestRecord(force_reload,
                                                            Raised(added.error), all_ids)
                                    /\ trace' = counted \o reads
                                         \o <<"embedding_model.encode", "collection.add!">>
                                    /\ index' = index
                               ELSE /\ last' = IngestRecord(force_reload,
                                                            Returned(None), all_ids)
                                    /\ trace' = calls
                                    /\ index' = added.collection
  /\ UNCHANGED <<documents, memory, conversation_chain, search_enabled>>

(***************************************************************************)
(* The caller takes the result of the last operation (the interface        *)
(* renders it) before it issues the next one.                              *)
(***************************************************************************)
Render ==
  /\ last # Idle
  /\ last' = Idle
  /\ trace' = <<>>
  /\ UNCHANGED <<index, documents, memory, conversation_chain, search_enabled>>

Next ==
  \/ \E question \in Questions, force_agent \in ForceAgents, use_memory \in BOOLEAN :
        Query(question, force_agent, use_memory)
  \/ ClearMemory
  \/ \E force_reload \in BOOLEAN : ingest_documents(force_reload)
  \/ Render

Spec == Init /\ [][Next]_vars

(***************************************************************************)
(* The documents directory changes between ingestions: files are written,  *)
(* rewritten and removed, the directory is removed and created again.      *)
(***************************************************************************)
WriteDocument(stem, text) ==
  /\ last = Idle
  /\ documents.exists
  /\ documents' = [documents EXCEPT !.files =
                     [f \in DOMAIN documents.files \cup {stem} |->
                        IF f = stem THEN text ELSE documents.files[f]]]
  /\ UNCHANGED <<last, trace, index, memory, conversation_chain, search_enabled>>

RemoveDocument(stem) ==
  /\ last = Idle
  /\ stem \in DOMAIN documents.files
  /\ documents' = [documents EXCEPT !.files =
                     [f \in DOMAIN documents.files \ {stem} |-> documents.files[f]]]
  /\ UNCHANGED <<last, trace, index, memory, conversation_chain, search_enabled>>

RemoveDirectory ==
  /\ last = Idle
  /\ documents.exists
  /\ documents' = [exists |-> FALSE, files |-> [f \in {} |-> <<>>]]
  /\ UNCHANGED <<last, trace, index, memory, conversation_chain, search_enabled>>

CreateDirectory ==
  /\ last = Idle
  /\ ~documents.exists
  /\ documents' = [exists |-> TRUE, files |-> [f \in {} |-> <<>>]]
  /\ UNCHANGED <<last, trace, index, memory, conversation_chain, search_enabled>>

IngestInit ==
  /\ last = Idle
  /\ trace = <<>>
  /\ index = EmptyIndex
  /\ documents = [exists |-> TRUE, files |-> [f \in {} |-> <<>>]]
  /\ memory = None
  /\ conversation_chain = None
  /\ search_enabled = FALSE

IngestNext ==
  \/ \E force_reload \in BOOLEAN : ingest_documents(force_reload)
  \/ \E stem \in Stems, text \in Texts : WriteDocument(stem, text)
  \/ \E stem \in Stems : RemoveDocument(stem)
  \/ RemoveDirectory
  \/ CreateDirectory
  \/ Render

IngestSpec == IngestInit /\ [][IngestNext]_vars

(***************************************************************************)
(* QueryRouter.route on its own: a call is issued with some question, the  *)
(* classification call has some outcome, and route returns or raises.      *)
(***************************************************************************)
RouterInit ==
  /\ \E query \in RouterQueries, response \in ClassifierOutcomes :
        last = [op |-> "route", done |-> FALSE, query |-> query,
                response |-> response, result |-> Returned(<<>>)]
  /\ trace = <<>>
  /\ index = EmptyIndex
  /\ documents = [exists |-> TRUE, files |-> PolicyDocuments]
  /\ memory = None
  /\ conversation_chain = None
  /\ search_enabled = FALSE

Route ==
  /\ last.op = "route"
  /\ ~last.done
  /\ last' = [last EXCEPT !.done = TRUE,
                          !.result = route(last.query, last.response)]
  /\ trace' = <<"client.messages.create">>
  /\ UNCHANGED <<index, documents, memory, conversation_chain, search_enabled>>

RouterNext == Route

RouterSpec == RouterInit /\ [][RouterNext]_vars

(***************************************************************************)
(* The router on its own, over all its questions and classifier responses, *)
(* together with the assistant that calls it.                              *)
(***************************************************************************)
RoutingSpec == (Init \/ RouterInit) /\ [][Next \/ RouterNext]_vars

(***************************************************************************)
(* RAGAgent.query called directly, in either mode (use_memory is a         *)
(* parameter of the agent's query), and RAGAgent.clear_memory.             *)
(***************************************************************************)
RagQuery(question, use_memory) ==
  /\ last = Idle
  /\ use_memory => Len(Messages(memory)) < 2 * MaxTurns
  /\ \E env \in RagEnvs :
       \E out \in rag_agent_query(index, memory, conversation_chain,
                                  question, use_memory, env) :
           /\ last' = [op |-> "rag_query", question |-> question,
                       use_memory |-> use_memory, result |-> out.result]
           /\ trace' = out.calls
           /\ memory' = out.memory
           /\ conversation_chain' = out.conversation_chain
  /\ UNCHANGED <<index, documents, search_enabled>>

RetrievalNext ==
  \/ \E question \in Questions, use_memory \in BOOLEAN :
        RagQuery(question, use_memory)
  \/ ClearMemory
  \/ Render

RetrievalSpec == Init /\ [][RetrievalNext]_vars

(***************************************************************************)
(* Every way a question reaches the agents: through CFOAssistant.query,    *)
(* and RAGAgent.query called directly in either retrieval mode, together   *)
(* with ingestion and clear_memory.                                        *)
(***************************************************************************)
AllQueriesSpec == Init /\ [][Next \/ RetrievalNext]_vars

(***************************************************************************)
(* Sessions.  The interface keeps one CFOAssistant per session             *)
(* (st.session_state.assistant), each with a RAGAgent of its own, whose    *)
(* memory and conversation_chain are attributes of the instance; the       *)
(* Chroma collection is shared.  In this specification memory,             *)
(* conversation_chain and last hold one value per session; a session       *)
(* sends questions to its RAGAgent in conversational mode and clears its   *)
(* memory.                                                                 *)
(***************************************************************************)
Sessions == {1, 2}

SessionQuestions == {ExpensePolicy, LatestTrends}

\* self.memory of the RAGAgent of session s
session_memory_shared(memories, s) == memories[1]

session_memory(memories, s) == memories[s]

SessionsInit ==
  /\ last = [s \in Sessions |-> Idle]
  /\ trace = <<>>
  /\ index \in {EmptyIndex, FreshIndex(PolicyDocuments)}
  /\ documents = [exists |-> TRUE, files |-> PolicyDocuments]
  /\ memory = [s \in Sessions |-> None]
  /\ conversation_chain = [s \in Sessions |-> None]
  /\ search_enabled = FALSE

\* rag_agent.query(question) of session s
SessionQuery(s, question) ==
  /\ Len(Messages(memory[s])) < 2 * MaxTurns
  /\ \E env \in RagEnvs :
       \E out \in rag_agent_query(index, session_memory(memory, s),
                                  conversation_chain[s], question, TRUE, env) :
           /\ last' = [last EXCEPT ![s] =
                         [op |-> "query", question |-> question,
                          \* the session's previous operation was clear_memory
                          after_clear |-> last[s].op = "clear_memory",
                          \* the number of entries that clear_memory removed
                          cleared |-> IF last[s].op = "clear_memory"
                                        THEN last[s].before ELSE 0,
                          calls |-> out.calls,
                          answer |-> out.result.answer,
                          error |-> out.result.error]]
           /\ trace' = out.calls
           /\ memory' = [memory EXCEPT ![s] = out.memory]
           /\ conversation_chain' =
                [conversation_chain EXCEPT ![s] = out.conversation_chain]
  /\ UNCHANGED <<index, documents, search_enabled>>

\* rag_agent.clear_memory() of session s
SessionClearMemory(s) ==
  /\ last' = [last EXCEPT ![s] =
                [op |-> "clear_memory",
                 before |-> Len(Messages(session_memory(memory, s)))]]
  /\ memory' = [memory EXCEPT ![s] = clear_memory(session_memory(memory, s))]
  /\ trace' = IF session_memory(memory, s) # None THEN <<"memory.clear">> ELSE <<>>
  /\ UNCHANGED <<index, documents, conversation_chain, search_enabled>>

SessionsNext ==
  \/ \E s \in Sessions, question \in SessionQuestions : SessionQuery(s, question)
  \/ \E s \in Sessions : SessionClearMemory(s)

SessionsSpec == SessionsInit /\ [][SessionsNext]_vars

(***************************************************************************)
(* Two conversational queries of one session that overlap in time: two     *)
(* threads inside RAGAgent.query of the same instance.  query takes no     *)
(* lock.  A chain call loads the log from the memory when it starts, runs  *)
(* its generation calls, and saves its turn when it has the answer: the    *)
(* question and the answer are two appends to the same list.  last holds   *)
(* the position of each request.                                          *)
(***************************************************************************)
Requests == {1, 2}

EarlierAnswer == "Expenses above the limit need approval ..."

OverlapRecord(base, requests) ==
  [op |-> "overlap", base |-> base, requests |-> requests]

OverlapInit ==
  /\ \E mem \in {NewMemory, save_context(NewMemory, ExpensePolicy, EarlierAnswer)} :
        /\ memory = mem
        /\ last = OverlapRecord(mem.messages,
                    [r \in Requests |->
                       [pc |-> "idle", question |-> <<>>, history |-> <<>>,
                        answer |-> ""]])
  /\ trace = <<>>
  /\ index \in {EmptyIndex, FreshIndex(PolicyDocuments)}
  /\ documents = [exists |-> TRUE, files |-> PolicyDocuments]
  /\ conversation_chain = NewChain
  /\ search_enabled = FALSE

\* the request enters the chain, which loads the log; the second request is
\* issued after the first and before the first has completed
Issue(r, question) ==
  /\ last.requests[r].pc = "idle"
  /\ r = 2 => last.requests[1].pc \in {"running", "answered", "saving"}
  /\ last' = [last EXCEPT !.requests[r] =
                [pc |-> "running", question |-> question,
                 history |-> memory.messages, answer |-> ""]]
  /\ trace' = <<"conversation_chain", "memory.load_memory_variables">>
  /\ UNCHANGED <<index, documents, memory, conversation_chain, search_enabled>>

\* the chain's generation calls, on the log the request loaded
Generate(r) ==
  /\ last.requests[r].pc = "running"
  /\ \E env \in RagEnvs :
       \E out \in conversation_chain_call(
                    index, [memory EXCEPT !.messages = last.requests[r].history],
                    last.requests[r].question, env) :
           /\ last' = [last EXCEPT !.requests[r] =
                         IF out.result.raised
                           THEN [@ EXCEPT !.pc = "failed"]
                           ELSE [@ EXCEPT !.pc = "answered",
                                          !.answer = out.result.value.answer]]
           /\ trace' = out.calls
  /\ UNCHANGED <<index, documents, memory, conversation_chain, search_enabled>>

\* save_context, first append: the question
SaveQuestion(r) ==
  /\ last.requests[r].pc = "answered"
  /\ last' = [last EXCEPT !.requests[r].pc = "saving"]
  /\ memory' = [memory EXCEPT !.messages =
                  Append(@, Human(last.requests[r].question))]
  /\ trace' = <<"chat_memory.add_user_message">>
  /\ UNCHANGED <<index, documents, conversation_chain, search_enabled>>

\* save_context, second append: the answer
SaveAnswer(r) ==
  /\ last.requests[r].pc = "saving"
  /\ last' = [last EXCEPT !.requests[r].pc = "done"]
  /\ memory' = [memory EXCEPT !.messages =
                  Append(@, AI(last.requests[r].answer))]
  /\ trace' = <<"chat_memory.add_ai_message">>
  /\ UNCHANGED <<index, documents, conversation_chain, search_enabled>>

OverlapNext ==
  \/ \E r \in Requests, question \in Questions : Issue(r, question)
  \/ \E r \in Requests : Generate(r)
  \/ \E r \in Requests : SaveQuestion(r)
  \/ \E r \in Requests : SaveAnswer(r)

OverlapSpec == OverlapInit /\ [][OverlapNext]_vars

(***************************************************************************)
(* First conversational queries of one assistant that overlap: threads     *)
(* inside RAGAgent.query of the same instance, each of which may find      *)
(* conversation_chain uninitialized.  Nothing in query or in               *)
(* _initialize_conversation_chain is locked, so the threads interleave at  *)
(* every read and write of self.memory and self.conversation_chain.  Here  *)
(* objects have an identity: memory is a reference to a buffer, the        *)
(* buffers' logs are in last.heap, and a chain holds the reference it was  *)
(* built with.                                                             *)
(***************************************************************************)
Threads == {1, 2}

MemoryRef(id) == [py |-> "ConversationBufferMemory", id |-> id]

ChainObject(id, mem) ==
  [py |-> "ConversationalRetrievalChain", id |-> id, memory |-> mem]

FirstQueriesInit ==
  /\ last = [op |-> "first_queries",
             threads |-> [t \in Threads |->
                            [pc |-> "idle", question |-> <<>>, memory_arg |-> None]],
             heap |-> [id \in {} |-> <<>>],
             called |-> {}]
  /\ trace = <<>>
  /\ index \in {EmptyIndex, FreshIndex(PolicyDocuments)}
  /\ documents = [exists |-> TRUE, files |-> PolicyDocuments]
  /\ memory = None
  /\ conversation_chain = None
  /\ search_enabled = FALSE

At(t, pc) == last.threads[t].pc = pc

Goto(t, pc) == [last EXCEPT !.threads[t].pc = pc]

\* query(question, use_memory=True) is entered
Enter(t, question) ==
  /\ At(t, "idle")
  /\ last' = [last EXCEPT !.threads[t] =
                [pc |-> "check", question |-> question, memory_arg |-> None]]
  /\ trace' = <<"rag_agent.query">>
  /\ UNCHANGED <<index, documents, memory, conversation_chain, search_enabled>>

\* query, line 159, and _initialize_conversation_chain, line 52: the chain is
\* created only when self.conversation_chain is None
CheckChain(t) ==
  /\ At(t, "check")
  /\ last' = Goto(t, IF conversation_chain = None THEN "make_memory" ELSE "call")
  /\ trace' = <<>>
  /\ UNCHANGED <<index, documents, memory, conversation_chain, search_enabled>>

\* lines 79-83: self.memory = ConversationBufferMemory(...)
MakeMemory(t) ==
  /\ At(t, "make_memory")
  /\ last' = [Goto(t, "build_chain") EXCEPT
                !.heap = [id \in DOMAIN last.heap \cup {t} |->
                            IF id = t THEN <<>> ELSE last.heap[id]]]
  /\ memory' = MemoryRef(t)
  /\ trace' = <<"ConversationBufferMemory">>
  /\ UNCHANGED <<index, documents, conversation_chain, search_enabled>>

\* lines 86-92, the arguments: memory=self.memory is read
BuildChain(t) ==
  /\ At(t, "build_chain")
  /\ last' = [Goto(t, "assign_chain") EXCEPT !.threads[t].memory_arg = memory]
  /\ trace' = <<"ConversationalRetrievalChain.from_llm">>
  /\ UNCHANGED <<index, documents, memory, conversation_chain, search_enabled>>

\* line 86, the assignment: self.conversation_chain = <the chain built>
AssignChain(t) ==
  /\ At(t, "assign_chain")
  /\ last' = Goto(t, "call")
  /\ conversation_chain' = ChainObject(t, last.threads[t].memory_arg)
  /\ trace' = <<>>
  /\ UNCHANGED <<index, documents, memory, search_enabled>>

\* line 163: self.conversation_chain({"question": question}), on the log of
\* the memory that chain was built with
CallChain(t) ==
  /\ At(t, "call")
  /\ LET chain == conversation_chain
         log == last.heap[chain.memory.id]
     IN  \E env \in RagEnvs :
           \E out \in conversation_chain_call(
                        index, [NewMemory EXCEPT !.messages = log],
                        last.threads[t].question, env) :
               /\ last' = [Goto(t, "done") EXCEPT
                             !.heap[chain.memory.id] = out.memory.messages,
                             !.called = @ \cup {chain.id}]
               /\ trace' = <<"conversation_chain">> \o out.calls
  /\ UNCHANGED <<index, documents, memory, conversation_chain, search_enabled>>

FirstQueriesNext ==
  \/ \E t \in Threads, question \in SessionQuestions : Enter(t, question)
  \/ \E t \in Threads : CheckChain(t)
  \/ \E t \in Threads : MakeMemory(t)
  \/ \E t \in Threads : BuildChain(t)
  \/ \E t \in Threads : AssignChain(t)
  \/ \E t \in Threads : CallChain(t)

FirstQueriesSpec == FirstQueriesInit /\ [][FirstQueriesNext]_vars

(***************************************************************************)
(* Properties.  A call that raised is marked "!" in the trace.             *)
(***************************************************************************)
Tokens == {SQL, RAG, WEB}

InTrace(call) == \E n \in DOMAIN trace : trace[n] = call

HandlerCalls == {"sql_agent.query", "rag_agent.query", "web_agent.query"}

IsHandlerCall(call) == call \in HandlerCalls

\* the handlers the last operation invoked, in order
HandlersInvoked == SelectSeq(trace, IsHandlerCall)

HandlerCall(token) ==
  CASE token = SQL -> "sql_agent.query"
    [] token = RAG -> "rag_agent.query"
    [] token = WEB -> "web_agent.query"

AgentUsed(token) ==
  CASE token = SQL -> "SQL Database"
    [] token = RAG -> "Policy Documents (RAG)"
    [] token = WEB -> "Web Search"

\* calls a handler issues, failed
FailedHandlerCalls ==
  { "client.messages.create:generate_sql!", "read_sql_query!",
    "client.messages.create:narrate!", "tavily.search!",
    "client.messages.create:answer!", "llm:condense_question!", "llm:answer!" }

\* the lower-cased query contains a keyword of the list
HasKeyword(keywords, query) ==
  \E k \in DOMAIN keywords : contains(lower(query), keywords[k])

\* route ran its keyword fallback: the classifier answered, with no token
FallbackRan ==
  /\ last.op = "route"
  /\ last.done
  /\ last.response.kind = "text"
  /\ upper(strip(last.response.text)) \notin Tokens

\* C1: when the classification call fails, query still returns, having
\* dispatched to the handler the keyword fallback chooses for the question.
C1_ClassifierFailureFallsBack ==
  (last.op = "query" /\ InTrace("client.messages.create:classify!")) =>
      /\ ~last.result.raised
      /\ last.result.value.agent_used = AgentUsed(keyword_fallback(last.question))

\* C2: whenever the keyword fallback runs, a query whose lower-cased text
\* contains a structured-data keyword is classified SQL, with or without a
\* policy keyword.
C2_StructuredKeywordWins ==
  (FallbackRan /\ HasKeyword(sql_keywords, last.query)) =>
      last.result = Returned(SQL)

C2_Witness ==
  /\ FallbackRan
  /\ HasKeyword(sql_keywords, last.query)
  /\ HasKeyword(policy_keywords, last.query)
  /\ last.result = Returned(SQL)

\* C3: whenever the keyword fallback runs on a query with no structured-data
\* keyword, the result is RAG with a policy keyword and WEB without one; the
\* fallback always returns one of the three handlers.
C3_PolicyElseWeb ==
  FallbackRan =>
      /\ ~last.result.raised
      /\ last.result.value \in Tokens
      /\ ~HasKeyword(sql_keywords, last.query) =>
            last.result.value =
              IF HasKeyword(policy_keywords, last.query) THEN RAG ELSE WEB

C3_Witness ==
  /\ FallbackRan
  /\ last.query = <<"P","o","l","i","c","y">>
  /\ last.result = Returned(RAG)

\* C4: route returns the classifier's answer, trimmed and upper-cased, if
\* and only if that is one of the three tokens; otherwise the keyword
\* fallback decides.
C4_ClassifierAnswerValidated ==
  (last.op = "route" /\ last.done /\ last.response.kind = "text") =>
      LET answered == upper(strip(last.response.text))
      IN  /\ ~last.result.raised
          /\ (last.result.value = answered) <=> (answered \in Tokens)
          /\ answered \notin Tokens =>
                last.result.value = keyword_fallback(last.query)

C4_Witness ==
  /\ last.op = "route"
  /\ last.done
  /\ last.response = Text(<<" ","s","q","l","\n">>)
  /\ last.result = Returned(SQL)
  /\ keyword_fallback(last.query) = WEB

\* C5: a query with an override (a non-empty handler name) never invokes the
\* router or the classification call, and dispatches to the handler the
\* override names.
C5_OverrideSkipsRouter ==
  (last.op = "query" /\ last.force_agent # None /\ last.force_agent.chars # <<>>) =>
      LET named == upper(last.force_agent.chars)
      IN  /\ ~InTrace("router.route")
          /\ ~InTrace("client.messages.create:classify")
          /\ ~InTrace("client.messages.create:classify!")
          /\ ~last.result.raised
          /\ last.agent_type = Chars(named)
          /\ named \in Tokens =>
                /\ HandlersInvoked = <<HandlerCall(named)>>
                /\ last.result.value.agent_used = AgentUsed(named)

C5_Witness ==
  /\ last.op = "query"
  /\ last.force_agent = Chars(<<"s","q","l">>)
  /\ last.question = LatestTrends
  /\ keyword_fallback(last.question) = WEB
  /\ HandlersInvoked = <<"sql_agent.query">>

\* C6: a query invokes at most one handler, and exactly the one its resolved
\* handler value names when that value is one of the three.
C6_OneHandlerPerQuery ==
  last.op = "query" =>
      /\ Len(HandlersInvoked) <= 1
      /\ (last.agent_type # None /\ last.agent_type.chars \in Tokens) =>
            /\ HandlersInvoked = <<HandlerCall(last.agent_type.chars)>>
            /\ last.result.value.agent_used = AgentUsed(last.agent_type.chars)

C6_Witness ==
  /\ last.op = "query"
  /\ last.force_agent = None
  /\ last.agent_type = Chars(SQL)
  /\ HandlersInvoked = <<"sql_agent.query">>
  /\ Len(trace) > 3

\* C7: a resolved handler value that is none of the three invokes no handler
\* and returns the unknown-handler envelope.
C7_UnknownHandler ==
  (last.op = "query" /\ last.agent_type # None
     /\ last.agent_type.chars \notin Tokens) =>
      /\ HandlersInvoked = <<>>
      /\ last.handled = None
      /\ ~last.result.raised
      /\ last.result.value.agent_used = "None"
      /\ Len(last.result.value.answer) > 0
      /\ DOMAIN last.result.value.metadata = {}
      /\ last.result.value.error = Str("Unknown agent type")

C7_Witness ==
  /\ last.op = "query"
  /\ last.agent_type = Chars(<<"X","Y","Z">>)
  /\ last.result.value.agent_used = "None"

\* C8: when a call of the dispatched handler fails, query still returns:
\* the envelope's error is the error the handler reported and the answer is
\* not empty.
C8_HandlerFailureReturned ==
  (last.op = "query" /\ \E n \in DOMAIN trace : trace[n] \in FailedHandlerCalls) =>
      /\ ~last.result.raised
      /\ last.handled # None
      /\ last.result.value.error = last.handled.error
      /\ last.result.value.answer = last.handled.answer
      /\ Len(last.result.value.answer) > 0

C8_Witness ==
  /\ last.op = "query"
  /\ InTrace("read_sql_query!")
  /\ ~last.result.raised
  /\ last.result.value.error = Str("Query execution error: no such table: companies")

\* calls that read a document, embed or write the collection
LoadingCalls ==
  { "open:" \o stem \o ".txt" : stem \in Stems }
    \cup { "embedding_model.encode", "collection.add", "collection.add!" }

\* C9: an ingestion without force_reload into a collection that holds a
\* chunk changes nothing in the collection, reads no document and embeds
\* nothing.
C9_IngestSkipsLoadedIndex ==
  [][ (last'.op = "ingest_documents" /\ ~last'.force_reload
         /\ Cardinality(DOMAIN index) > 0) =>
        /\ index' = index
        /\ last'.result = Returned(None)
        /\ \A n \in DOMAIN trace' : trace'[n] \notin LoadingCalls ]_vars

C9_Witness ==
  /\ last.op = "ingest_documents"
  /\ ~last.force_reload
  /\ trace = <<"collection.count", "collection.count">>
  /\ Cardinality(DOMAIN index) > 0
  /\ documents.exists
  /\ index # FreshIndex(documents.files)

\* C10: an ingestion with force_reload that completes on a collection that
\* holds chunks leaves exactly the chunks of the current documents.
C10_ForceReloadReplaces ==
  [][ (last'.op = "ingest_documents" /\ last'.force_reload
         /\ ~last'.result.raised /\ Cardinality(DOMAIN index) > 0) =>
        index' = FreshIndex(documents.files) ]_vars

\* C11: an ingestion with force_reload over a collection built from the
\* documents as they are now completes and leaves the chunk ids, and so the
\* chunk count, of an ingestion of those documents into an empty collection.
C11_ReloadOfUnchangedDocuments ==
  [][ (last'.op = "ingest_documents" /\ last'.force_reload
         /\ documents.exists
         /\ Cardinality(DOMAIN index) > 0
         /\ index = FreshIndex(documents.files)) =>
        /\ ~last'.result.raised
        /\ DOMAIN index' = DOMAIN FreshIndex(documents.files)
        /\ Cardinality(DOMAIN index') = Cardinality(DOMAIN FreshIndex(documents.files))
        /\ { last'.all_ids[n] : n \in DOMAIN last'.all_ids } = DOMAIN index' ]_vars

C11_Witness ==
  /\ last.op = "ingest_documents"
  /\ last.force_reload
  /\ ~last.result.raised
  /\ documents.exists
  /\ Cardinality(DOMAIN documents.files) = 2
  /\ Cardinality(DOMAIN last.before) > 2
  /\ last.before = FreshIndex(documents.files)
  /\ DOMAIN index = DOMAIN last.before
  /\ InTrace("collection.add")

\* the ids '<stem>_chunk_<ordinal>' of the chunks of `files`, document by
\* document in `order`, ordinals counting from 0 in split order
RECURSIVE ExpectedIds(_, _)
ExpectedIds(files, order) ==
  IF order = <<>> THEN <<>>
  ELSE LET stem == Head(order)
       IN  [n \in 1..Len(split_text(files[stem])) |->
              stem \o "_chunk_" \o ToString(n - 1)]
             \o ExpectedIds(files, Tail(order))

\* C12: in every ingestion the chunks get the ids '<stem>_chunk_<ordinal>',
\* ordinals counting 0,1,2,... in split order within each document; the ids
\* of one ingestion are pairwise distinct, and in a collection that was
\* empty each id holds the chunk at its ordinal.
C12_ChunkIds ==
  (last.op = "ingest_documents" /\ documents.exists
     /\ (last.force_reload \/ Cardinality(DOMAIN last.before) = 0)) =>
      /\ \E order \in Orders(DOMAIN documents.files) :
            last.all_ids = ExpectedIds(documents.files, order)
      /\ \A m, n \in DOMAIN last.all_ids :
            m # n => last.all_ids[m] # last.all_ids[n]
      /\ (Cardinality(DOMAIN last.before) = 0 /\ ~last.result.raised) =>
            \A stem \in DOMAIN documents.files :
              \A n \in 1..Len(split_text(documents.files[stem])) :
                index[stem \o "_chunk_" \o ToString(n - 1)].document
                  = split_text(documents.files[stem])[n]

C12_Witness ==
  /\ last.op = "ingest_documents"
  /\ ~last.result.raised
  /\ Cardinality(DOMAIN last.before) = 0
  /\ DOMAIN documents.files = {"doc1", "doc2"}
  /\ Len(split_text(documents.files["doc1"])) = 2
  /\ DOMAIN index = {"doc1_chunk_0", "doc1_chunk_1", "doc2_chunk_0"}
  /\ index["doc1_chunk_1"].document = <<ParaC, ParaD>>

\* generation calls a retrieval may issue, completed or failed
GenerationCalls ==
  { "client.messages.create:answer", "client.messages.create:answer!",
    "llm:condense_question", "llm:condense_question!",
    "llm:answer", "llm:answer!" }

NoRelevantInformation ==
  "I couldn't find any relevant information in the policy documents."

\* C13: a retrieval whose search returns no chunk (the collection is empty)
\* returns the fixed no-relevant-information answer with empty sources and
\* no error, and issues no generation call.
C13_NoChunksNoGeneration ==
  (last.op = "query" /\ last.handled # None /\ last.agent_type = Chars(RAG)
     /\ Cardinality(DOMAIN index) = 0) =>
      /\ last.handled.answer = NoRelevantInformation
      /\ last.handled.sources = <<>>
      /\ last.handled.error = None
      /\ \A n \in DOMAIN trace : trace[n] \notin GenerationCalls

\* C14: a successful conversational retrieval appends exactly its question
\* and its answer at the end of the memory; a failed one appends nothing;
\* no query changes, removes or reorders the entries already there.
C14_MemoryAppendOnly ==
  [][ last'.op = "query" =>
        IF last'.agent_type = Chars(RAG)
          THEN Messages(memory') =
                 IF last'.handled.error = None
                   THEN Messages(memory)
                          \o <<Human(last'.question), AI(last'.handled.answer)>>
                   ELSE Messages(memory)
          ELSE memory' = memory ]_vars

C14_Witness ==
  /\ last.op = "query"
  /\ last.agent_type = Chars(RAG)
  /\ last.handled.error = None
  /\ InTrace("llm:condense_question")
  /\ Len(Messages(memory)) = 4
  /\ memory.messages[1].question # memory.messages[3].question
  /\ memory.messages[3] = Human(last.question)

\* C15: clear_memory leaves the turn log empty and the collection as it
\* was; before a conversational query has created the memory it changes
\* nothing.
C15_ClearMemory ==
  [][ last'.op = "clear_memory" =>
        /\ Messages(memory') = <<>>
        /\ index' = index
        /\ documents' = documents
        /\ conversation_chain' = conversation_chain
        /\ memory = None => memory' = None ]_vars

C15_Witness ==
  /\ last.op = "clear_memory"
  /\ Len(last.before) = 4
  /\ memory # None
  /\ memory.messages = <<>>
  /\ Cardinality(DOMAIN index) > 0
  /\ InTrace("memory.clear")

\* C16: the conversational retrieval that follows clear_memory in a session
\* works on an empty log: it issues no contextualization call, and after it
\* the log holds its own turn and nothing recorded before the clear.
C16_QueryAfterClear ==
  \A s \in Sessions :
    (last[s].op = "query" /\ last[s].after_clear) =>
        /\ \A n \in DOMAIN last[s].calls :
              last[s].calls[n] \notin {"llm:condense_question", "llm:condense_question!"}
        /\ Messages(memory[s]) =
             IF last[s].error = None
               THEN <<Human(last[s].question), AI(last[s].answer)>>
               ELSE <<>>

C16_Witness ==
  /\ last[1].op = "query"
  /\ last[1].after_clear
  /\ last[1].cleared = 4
  /\ last[1].error = None
  /\ last[1].question = LatestTrends
  /\ Messages(memory[1]) = <<Human(LatestTrends), AI(last[1].answer)>>
  /\ Cardinality(DOMAIN index) > 0

Condensed(calls) ==
  \E n \in DOMAIN calls :
    calls[n] \in {"llm:condense_question", "llm:condense_question!"}

\* C17: an operation of one session leaves the memory of every other session
\* as it was, and reads its own log only: a query contextualizes exactly
\* when the log of its own session holds a turn, and extends or clears that
\* log alone, whatever the other sessions have done.
C17_MemoryPerSession ==
  [][ \A s \in Sessions :
        last'[s] # last[s] =>
          /\ \A t \in Sessions \ {s} :
                /\ memory'[t] = memory[t]
                /\ conversation_chain'[t] = conversation_chain[t]
          /\ last'[s].op = "query" =>
                /\ Condensed(last'[s].calls) <=> (Messages(memory[s]) # <<>>)
                /\ Messages(memory'[s]) =
                     IF last'[s].error = None
                       THEN Messages(memory[s])
                              \o <<Human(last'[s].question), AI(last'[s].answer)>>
                       ELSE Messages(memory[s])
          /\ last'[s].op = "clear_memory" =>
                /\ Messages(memory'[s]) = <<>>
                /\ last'[s].before = Len(Messages(memory[s])) ]_vars

C17_Witness ==
  /\ last[1].op = "query"
  /\ last[2].op = "query"
  /\ Len(Messages(memory[1])) = 4
  /\ Len(Messages(memory[2])) = 2
  /\ ~Condensed(last[2].calls)
  /\ trace = last[2].calls
  /\ memory[1].messages[1].question # memory[2].messages[1].question

\* the turn a completed request has saved, nothing for a failed one
Turn(request) ==
  IF request.pc = "done"
    THEN <<Human(request.question), AI(request.answer)>>
    ELSE <<>>

\* C19: when two conversational queries of one session overlap, once both
\* have completed the log holds, after what it held before, the turn of the
\* request issued first and then the turn of the request issued second,
\* each whole.
C19_OverlappingTurnsInOrder ==
  (last.op = "overlap"
     /\ \A r \in Requests : last.requests[r].pc \in {"done", "failed"}) =>
      memory.messages = last.base \o Turn(last.requests[1]) \o Turn(last.requests[2])

\* C20: when the execution of the generated query fails, the structured
\* handler issues no narration call (its only generation call is the one
\* that wrote the query) and returns a dict whose error carries the
\* execution diagnostic and whose answer is not empty.
C20_ExecutionFailureNotNarrated ==
  (last.op = "query" /\ InTrace("read_sql_query!")) =>
      /\ ~InTrace("client.messages.create:narrate")
      /\ ~InTrace("client.messages.create:narrate!")
      /\ trace[Len(trace)] = "read_sql_query!"
      /\ last.handled.error = Str("Query execution error: no such table: companies")
      /\ Len(last.handled.answer) > 0
      /\ last.handled.dataframe = None
      /\ last.handled.sql_query = None

C20_Witness ==
  /\ last.op = "query"
  /\ last.agent_type = Chars(SQL)
  /\ last.force_agent = None
  /\ trace[Len(trace)] = "read_sql_query!"
  /\ last.handled.answer =
       "I encountered an error: Query execution error: no such table: companies"

IsSqlAgentCall(call) ==
  call \in { "client.messages.create:generate_sql",
             "client.messages.create:generate_sql!",
             "read_sql_query", "read_sql_query!",
             "client.messages.create:narrate",
             "client.messages.create:narrate!" }

\* the calls the structured handler issued, in order
SqlAgentCalls == SelectSeq(trace, IsSqlAgentCall)

\* C21: a structured query whose execution succeeds generates the query
\* text, executes it, and then narrates the table with a second generation
\* call when the table has a row; for a table with zero rows it issues no
\* second generation call and answers with the fixed no-results text.
C21_NarrationAfterExecution ==
  (last.op = "query" /\ InTrace("read_sql_query")) =>
      /\ SqlAgentCalls \in
           { <<"client.messages.create:generate_sql", "read_sql_query">>,
             <<"client.messages.create:generate_sql", "read_sql_query",
               "client.messages.create:narrate">>,
             <<"client.messages.create:generate_sql", "read_sql_query",
               "client.messages.create:narrate!">> }
      /\ Len(SqlAgentCalls) = 2 =>
           /\ last.handled.error = None
           /\ last.handled.dataframe.rows = <<>>
           /\ last.handled.answer = "No results found for your query."
      /\ (last.handled.error = None /\ last.handled.dataframe.rows = <<>>) =>
           Len(SqlAgentCalls) = 2

C21_Witness ==
  /\ last.op = "query"
  /\ SqlAgentCalls = <<"client.messages.create:generate_sql", "read_sql_query",
                       "client.messages.create:narrate">>
  /\ last.handled.error = None
  /\ last.handled.dataframe.rows # <<>>

\* C21 as stated: every structured query whose execution succeeds issues
\* exactly two generation calls, the narration after the execution, also
\* for a table with zero rows.
C21_AlwaysTwoGenerationCalls ==
  (last.op = "query" /\ InTrace("read_sql_query")) =>
      SqlAgentCalls \in
        { <<"client.messages.create:generate_sql", "read_sql_query",
            "client.messages.create:narrate">>,
          <<"client.messages.create:generate_sql", "read_sql_query",
            "client.messages.create:narrate!">> }

\* C22: with no search provider configured the web handler issues no search
\* call and no generation call, and returns the not-configured result: an
\* answer that tells how to configure the search, empty sources and the
\* not-configured error.
C22_SearchNotConfigured ==
  (last.op = "query" /\ last.agent_type = Chars(WEB) /\ ~search_enabled) =>
      /\ trace[Len(trace)] = "web_agent.query"
      /\ \A n \in DOMAIN trace :
            trace[n] \notin { "tavily.search", "tavily.search!",
                              "client.messages.create:answer",
                              "client.messages.create:answer!" }
      /\ last.handled.error = Str("Web search not configured")
      /\ last.handled.answer =
           "Web search is not configured. Please add TAVILY_API_KEY to your .env file. You can get a free API key at https://tavily.com"
      /\ last.handled.sources = <<>>
      /\ last.handled.search_results = <<>>
      /\ last.result.value.error = Str("Web search not configured")

C22_Witness ==
  /\ last.op = "query"
  /\ last.agent_type = Chars(WEB)
  /\ ~search_enabled
  /\ last.question = LatestTrends
  /\ trace = <<"router.route", "client.messages.create:classify", "web_agent.query">>
  /\ last.handled.error = Str("Web search not configured")

\* C23: when the search provider is configured and its search call fails,
\* the web handler's result carries an error, and one that differs from the
\* not-configured error.
C23_SearchFailureReported ==
  (last.op = "query" /\ InTrace("tavily.search!")) =>
      /\ last.handled.error # None
      /\ last.handled.error # Str("Web search not configured")

\* C24: a query with use_memory = false that is dispatched to the retrieval
\* handler runs the stateless retrieval: the conversational chain is not
\* called and the memory stays as it was; with use_memory = true it runs the
\* conversational chain.
C24_UseMemoryHonoured ==
  [][ (last'.op = "query" /\ last'.agent_type = Chars(RAG)) =>
        IF last'.use_memory
          THEN \E n \in DOMAIN trace' : trace'[n] = "conversation_chain"
          ELSE /\ \E n \in DOMAIN trace' : trace'[n] = "_stateless_query"
               /\ \A n \in DOMAIN trace' : trace'[n] # "conversation_chain"
               /\ memory' = memory ]_vars

\* C25: an ingestion that writes n chunks returns n, the number of chunks
\* the collection holds for the ingested documents.
C25_IngestReturnsCount ==
  (last.op = "ingest_documents" /\ InTrace("collection.add")) =>
      /\ ~last.result.raised
      /\ last.result.value # None
      /\ last.result.value = Len(last.all_ids)

\* C26: every payload field the dispatched handler returned is in the
\* envelope's metadata unchanged: the query text and the table of the
\* structured handler, the sources and the supporting documents of the
\* retrieval handler, the sources and the search hits of the web handler.
C26_PayloadReachesCaller ==
  (last.op = "query" /\ last.handled # None) =>
      LET metadata == last.result.value.metadata
      IN  /\ last.agent_type = Chars(SQL) =>
                /\ metadata.sql_query = last.handled.sql_query
                /\ metadata.dataframe = last.handled.dataframe
          /\ last.agent_type = Chars(RAG) =>
                /\ metadata.sources = last.handled.sources
                /\ metadata.chunks = last.handled.source_documents
          /\ last.agent_type = Chars(WEB) =>
                /\ metadata.sources = last.handled.sources
                /\ metadata.search_results = last.handled.search_results

\* C27: every value route returns is one of the three tokens, for every
\* question and every classifier response; so a query without an override
\* (None or the empty string) never gets the unknown-handler result.
C27_RouteClosedDomain ==
  /\ (last.op = "route" /\ last.done /\ ~last.result.raised) =>
        last.result.value \in Tokens
  /\ (last.op = "query" /\ (last.force_agent = None \/ last.force_agent = Chars(<<>>))
        /\ ~last.result.raised) =>
        /\ last.agent_type.chars \in Tokens
        /\ last.result.value.agent_used # "None"
        /\ last.result.value.error # Str("Unknown agent type")
        /\ last.result.value # unknown_envelope

C27_Witness ==
  /\ last.op = "query"
  /\ last.force_agent = Chars(<<>>)
  /\ last.question = LatestTrends
  /\ InTrace("client.messages.create:classify")
  /\ last.agent_type = Chars(WEB)
  /\ last.result.value.agent_used = "Web Search"

Names(list) == { list[n] : n \in DOMAIN list }

\* C28: in every retrieval result, in both modes, sources holds each
\* document name at most once, and holds exactly the names of the documents
\* the retrieved chunks came from.
C28_SourcesDeduplicated ==
  last.op = "rag_query" =>
      LET result == last.result
      IN  /\ \A m, n \in DOMAIN result.sources :
                m # n => result.sources[m] # result.sources[n]
          /\ result.error # None => result.sources = <<>>
          /\ (result.error = None /\ last.use_memory) =>
                Names(result.sources) =
                  { result.source_documents[n].metadata.source :
                      n \in DOMAIN result.source_documents }
          /\ (result.error = None /\ ~last.use_memory) =>
                \E ranking \in nearest(index, encode_question(last.question), n_results) :
                  Names(result.sources) =
                    { index[ranking[n]].metadata.source : n \in DOMAIN ranking }

C28_Witness ==
  /\ last.op = "rag_query"
  /\ ~last.use_memory
  /\ last.result.error = None
  /\ Cardinality(DOMAIN index) = 3
  /\ Names(last.result.sources) = {"doc1.txt", "doc2.txt"}
  /\ Len(last.result.sources) = 2
  /\ InTrace("client.messages.create:answer")

\* C29: after any interleaving of first conversational queries on one
\* assistant, self.memory (what clear_memory and get_conversation_history
\* act on) is the memory the chain in self.conversation_chain was built
\* with, and at most one chain has been called.
C29_OneChainOneMemory ==
  (last.op = "first_queries" /\ \A t \in Threads : At(t, "done")) =>
      /\ conversation_chain.memory = memory
      /\ Cardinality(last.called) <= 1

\* C30: a query that went to the structured or the web handler, or ended in
\* the unknown-handler result, leaves the conversation memory as it was; no
\* query, through the assistant or straight to the retrieval agent in
\* either mode, changes the similarity index; the index changes only in
\* ingest_documents.
C30_QueriesFrame ==
  [][/\ (last'.op = "query" /\ last'.agent_type # None
           /\ last'.agent_type.chars # RAG) => memory' = memory
     /\ last'.op \in {"query", "rag_query"} => index' = index
     /\ index' # index => last'.op = "ingest_documents"]_vars

C30_Witness ==
  /\ last.op = "query"
  /\ last.agent_type = Chars(WEB)
  /\ ~last.result.raised
  /\ Len(Messages(memory)) > 0
  /\ Cardinality(DOMAIN index) > 0

=============================================================================
